---------------------------- MODULE Spec2Model ----------------------------
(***************************************************************************)
(* A model of SMELT (src/Smelt.py): the Qt front-end that validates the    *)
(* operator's input, resolves overwrite decisions, builds ffmpeg argument  *)
(* vectors and runs them one after another as supervised subprocesses.     *)
(*                                                                         *)
(* The Smelt object is the record `self`; its fields keep the attribute    *)
(* names of the class.  Widgets are represented by the one value the code  *)
(* reads from them (a checkbox by isChecked(), a line edit by text()).     *)
(* Python's None is the string "None" for scalar attributes and the empty  *)
(* sequence for a command attribute (an argv is never empty).              *)
(***************************************************************************)
EXTENDS Integers, Sequences, FiniteSets, TLC

VARIABLES
    self,        \* the attributes of the Smelt instance
    pc,          \* where the GUI thread is: "idle", "exec", "proc", "finish", "crashed"
    commands,    \* execute_ffmpeg_commands: the list of attribute names it was given
    i,           \* execute_ffmpeg_commands: index of the current entry of commands
    process,     \* the child of self.process: [state, returncode, argv]
    fs,          \* the files that exist on disk
    cuda,        \* what the hardware probe answers
    job,         \* history of the current run_smelt call (see NoJob)
    jobs,        \* number of run_smelt calls so far
    runner,      \* one call of run_ffmpeg_command seen from inside (see NoRunner)
    combiner     \* one call of select_audio with a stem file (see NoCombiner)

vars == <<self, pc, commands, i, process, fs, cuda, job, jobs, runner, combiner>>

-----------------------------------------------------------------------------
(* Bounds of the model *)

\* run_smelt is invoked at most this many times in one behaviour
MaxJobs == 2

-----------------------------------------------------------------------------
(* The file system the operator works in. *)

None == "None"
NoneCmd == << >>

Dir == "/p"
DpxFrame == "/p/f000001.dpx"
AudioWav == "/p/a.wav"
FilmMxf == "/p/film.mxf"
FilmMov == "/p/film.mov"
FilmAvi == "/p/film.avi"

\* the six files of a multichannel set and the file they are combined into
Suffixes == <<"L", "R", "C", "LFE", "Ls", "Rs">>
StemName(suffix) == "s." \o suffix \o ".wav"
Stem(suffix) == "/p/" \o StemName(suffix)
Stems == {Stem(Suffixes[n]) : n \in 1..Len(Suffixes)}
Combined == "/p/s_combined.wav"

\* what the operator may type into mappe_input_field / fil_input_field
MappeTexts == {"", Dir, FilmMxf, FilmMov, FilmAvi}
FilTexts == {"", AudioWav}

isdir(p) == p = Dir
isfile(p) == p \in fs /\ p # Dir
exists(p) == p \in fs \/ isdir(p)

dirname(p) ==
    CASE p \in {DpxFrame, AudioWav, FilmMxf, FilmMov, FilmAvi, Combined} \cup Stems -> Dir
      [] p = Dir -> "/"
      [] OTHER -> ""

basename(p) ==
    CASE p = Dir -> "p"
      [] p = DpxFrame -> "f000001.dpx"
      [] p = AudioWav -> "a.wav"
      [] p = FilmMxf -> "film.mxf"
      [] p = FilmMov -> "film.mov"
      [] p = FilmAvi -> "film.avi"
      [] p = Combined -> "s_combined.wav"
      [] p \in Stems -> StemName(CHOOSE suffix \in {"L", "R", "C", "LFE", "Ls", "Rs"} :
                                     p = Stem(suffix))
      [] OTHER -> p

\* os.path.splitext(p)[1].lower()
splitext(p) ==
    CASE p \in {FilmMxf, "film.mxf"} -> ".mxf"
      [] p \in {FilmMov, "film.mov"} -> ".mov"
      [] p \in {FilmAvi, "film.avi"} -> ".avi"
      [] p \in {AudioWav, "a.wav"} -> ".wav"
      [] p \in {DpxFrame} -> ".dpx"
      [] OTHER -> ""

join(a, b) == a \o "/" \o b

\* glob.glob(os.path.join(folder_path, '*.dpx'))
glob_dpx(folder) == IF folder = Dir /\ DpxFrame \in fs THEN <<DpxFrame>> ELSE << >>

ffmpeg_path == "ffmpeg"


-----------------------------------------------------------------------------
(* Smelt.__init__, set_default_states, designate_button_methods *)

CommandAttrs ==
    {"ffmpeg_dcp_prores", "ffmpeg_lossless_audio_cmd", "ffmpeg_audio_cmd",
     "ffmpeg_h264_from_prores_cmd", "ffmpeg_dcp_h264_cmd", "ffmpeg_dcp_cmd",
     "ffmpeg_h264_cmd", "ffmpeg_prores_cmd", "ffmpeg_h264_cmd_direct",
     "ffmpeg_lossless_cmd"}

Smelt__init__ ==
    [ process_terminated |-> None,
      ffmpeg_hardware_accel |-> NoneCmd,
      ffmpeg_dcp_prores |-> NoneCmd,
      ffmpeg_encoder |-> NoneCmd,
      ffmpeg_lossless_audio_cmd |-> NoneCmd,
      ffmpeg_audio_cmd |-> NoneCmd,
      ffmpeg_h264_from_prores_cmd |-> NoneCmd,
      ffmpeg_dcp_h264_cmd |-> NoneCmd,
      ffmpeg_dcp_cmd |-> NoneCmd,
      ffmpeg_h264_cmd |-> NoneCmd,
      ffmpeg_prores_cmd |-> NoneCmd,
      ffmpeg_h264_cmd_direct |-> NoneCmd,
      ffmpeg_lossless_cmd |-> NoneCmd,
      ffmpeg_base |-> NoneCmd,
      images_path |-> None,
      proceed_prores |-> None,
      proceed_lossless |-> None,
      proceed_h264 |-> None,
      h264_mp4 |-> None,
      prores_mov |-> None,
      lossless_mov |-> None,
      audio_file |-> None,
      folder_name |-> None,
      fps |-> None,
      video |-> None,
      audio_file_path |-> None,
      folder_path |-> None,
      \* widgets: set_default_states, create_buttons, setup_layout
      inkluderLydCheckBox |-> TRUE,
      inkluderProresCheckBox |-> TRUE,
      kunLydCheckBox |-> FALSE,
      mezzaninfilCheckBox |-> TRUE,
      mappe_input_field |-> "",
      fil_input_field |-> "",
      fpsCounter |-> "24",
      execButton |-> "Kjor",
      enabled |-> TRUE ]

-----------------------------------------------------------------------------
(* The checkboxes and the two line edits *)

\* check_box_logic(knapp), called after the clicked box has changed its state
check_box_logic(s, knapp) ==
    IF knapp = "kunlyd" /\ s.kunLydCheckBox
    THEN [s EXCEPT !.inkluderProresCheckBox = FALSE,
                   !.inkluderLydCheckBox = TRUE,
                   !.mappe_input_field = ""]
    ELSE LET s1 == IF knapp = "lyd" /\ ~s.inkluderLydCheckBox
                   THEN [s EXCEPT !.fil_input_field = ""]
                   ELSE s
         IN [s1 EXCEPT !.kunLydCheckBox = FALSE]

\* toggle_execute_button
toggle_execute_button(s) ==
    CASE s.execButton = "Kjor" -> [s EXCEPT !.execButton = "Avbryt"]
      [] s.execButton = "Avbryt" -> [s EXCEPT !.execButton = "Kjor"]
      [] OTHER -> s

\* lock_down(lock)
lock_down(s, lock) ==
    toggle_execute_button([s EXCEPT !.enabled = ~lock])

\* determine_file_type: the type, and the warning it shows (or None)
determine_file_type(s) ==
    LET file_path == s.mappe_input_field
    IN  IF file_path = ""
        \* `not self.kunLydCheckBox.isChecked` tests the bound method, which is
        \* always true: the 'No file selected.' warning is never shown
        THEN [type |-> None, warning |-> None]
        ELSE CASE splitext(file_path) = ".mxf" -> [type |-> "mxf", warning |-> None]
               [] splitext(file_path) = ".mov" -> [type |-> "mov", warning |-> None]
               [] splitext(file_path) = "" -> [type |-> "dpx", warning |-> None]
               [] OTHER -> [type |-> None, warning |-> "Unsupported file type selected."]

\* check_path_validity
check_path_validity(s) ==
    LET mappe_input_text == s.mappe_input_field
        fil_input_text == s.fil_input_field
        s1 == IF isdir(mappe_input_text)
              THEN [s EXCEPT !.folder_path = mappe_input_text]
              ELSE IF isfile(mappe_input_text)
                   THEN [s EXCEPT !.folder_path = dirname(mappe_input_text)]
                   ELSE s
        s2 == IF isfile(fil_input_text)
              THEN [s1 EXCEPT !.audio_file_path = fil_input_text]
              ELSE IF fil_input_text = ""
                   THEN [s1 EXCEPT !.audio_file_path = "",
                                   !.inkluderLydCheckBox = FALSE]
                   ELSE s1
    IN  IF /\ s2.audio_file_path # ""
           /\ ~(isdir(mappe_input_text) \/ isfile(mappe_input_text))
           /\ ~s2.kunLydCheckBox
        THEN [s2 EXCEPT !.kunLydCheckBox = TRUE,
                        !.inkluderProresCheckBox = FALSE]
        ELSE s2

-----------------------------------------------------------------------------
(* Overwrite decisions *)

\* exist_check with the operator's answer dropped: an existing target is always
\* overwritten
exist_check_always_overwrites(filtype, overwrite) ==
    IF exists(filtype)
    THEN [flag |-> "-y", checked |-> 1, prompts |-> 1]
    ELSE [flag |-> "-y", checked |-> 1, prompts |-> 0]

\* exist_check(filtype): the flag it returns, whether it looked at the disk and
\* how many prompts it showed.  `overwrite` is the operator's answer to the prompt.
exist_check(filtype, overwrite) ==
    IF exists(filtype)
    THEN [flag |-> IF overwrite THEN "-y" ELSE "-n", checked |-> 1, prompts |-> 1]
    ELSE [flag |-> "-y", checked |-> 1, prompts |-> 0]

\* `self.exist_check(path) if <checkbox>.isChecked() else '-n'`
exist_check_if(requested, filtype, overwrite) ==
    IF requested
    THEN exist_check(filtype, overwrite)
    ELSE [flag |-> "-n", checked |-> 0, prompts |-> 0]

-----------------------------------------------------------------------------
(* cuda_available and the encoder selection of initial_setup *)

cuda_available == cuda

hardware_accel(accel) ==
    IF accel THEN <<"-hwaccel", "cuda">> ELSE <<"-hwaccel", "auto">>

encoder(accel) ==
    IF accel THEN <<"-c:v", "hevc_nvenc", "-pix_fmt", "yuv422p10le">>
             ELSE <<"-c:v", "libx264", "-pix_fmt", "yuv422p10le">>

-----------------------------------------------------------------------------
(* Validation: check_dpx_files and initial_setup *)

\* re.match(r'^\D*', os.path.basename(images_path)).group()
prefix(images_path) == IF images_path = DpxFrame THEN "f" ELSE ""

\* check_dpx_files without its `if result == QMessageBox.Cancel: return False`
check_dpx_files_ignoring_cancel(s, folder_path, ok) ==
    LET matching_files == glob_dpx(folder_path)
    IN  IF matching_files = << >>
        THEN [result |-> FALSE, self |-> s, warning |-> "Finner ingen .dpx filer",
              asked |-> {}]
        ELSE [result |-> TRUE,
              self |-> [s EXCEPT !.images_path = matching_files[1]],
              warning |-> None, asked |-> {"ok"}]

\* check_dpx_files(folder_path); `ok` is the operator's answer to "Fant ... Trykk ok"
check_dpx_files(s, folder_path, ok) ==
    LET matching_files == glob_dpx(folder_path)
    IN  IF matching_files = << >>
        THEN [result |-> FALSE, self |-> s, warning |-> "Finner ingen .dpx filer",
              asked |-> {}]
        ELSE [result |-> ok,
              self |-> [s EXCEPT !.images_path = matching_files[1]],
              warning |-> None, asked |-> {"ok"}]

NoDecision == [flag |-> None, checked |-> 0, prompts |-> 0]
NoDecisions == [h264 |-> NoDecision, lossless |-> NoDecision, prores |-> NoDecision]

\* The part of initial_setup after the input checks (lines 717-748).
\* `ans` holds the operator's answers to the overwrite prompts, `makedirs_ok`
\* whether os.makedirs succeeds.
setup_targets(s, ans, makedirs_ok) ==
    LET folder_path == s.folder_path
        accel == cuda_available
        s1 == [s EXCEPT !.ffmpeg_hardware_accel = hardware_accel(accel),
                        !.ffmpeg_encoder = encoder(accel),
                        !.fps = s.fpsCounter]
    IN  IF folder_path = None
        \* os.path.basename(None) raises TypeError
        THEN [result |-> "raise", self |-> s1, decisions |-> NoDecisions, makedirs |-> FALSE]
        ELSE
        LET folder_name == basename(folder_path)
            s2 == [s1 EXCEPT
                     !.folder_name = folder_name,
                     !.audio_file = IF s.audio_file_path = None THEN "" ELSE s.audio_file_path,
                     !.lossless_mov = join(join(folder_path, "lossless"), folder_name \o ".mov"),
                     !.prores_mov = join(join(folder_path, "lossless"), folder_name \o "_prores.mov"),
                     !.h264_mp4 = join(join(folder_path, "lossless"), "nb-no_" \o folder_name \o ".mp4")]
        IN  IF ~makedirs_ok
            THEN [result |-> "raise", self |-> s2, decisions |-> NoDecisions, makedirs |-> TRUE]
            ELSE
            LET d_h264 == exist_check(s2.h264_mp4, ans.h264)
                d_lossless == exist_check_if(s2.mezzaninfilCheckBox, s2.lossless_mov, ans.lossless)
                d_prores == exist_check_if(s2.inkluderProresCheckBox, s2.prores_mov, ans.prores)
            IN  [result |-> "ok", makedirs |-> TRUE,
                 self |-> [s2 EXCEPT !.proceed_h264 = d_h264.flag,
                                     !.proceed_lossless = d_lossless.flag,
                                     !.proceed_prores = d_prores.flag],
                 decisions |-> [h264 |-> d_h264, lossless |-> d_lossless, prores |-> d_prores]]

\* initial_setup: result is "ok" (True), "false" (False) or "raise" (an exception
\* leaves the method); `asked` are the prompts it showed and `makedirs` tells
\* whether it reached os.makedirs
initial_setup(s, ans, makedirs_ok) ==
    LET ft == determine_file_type(s)
        filetype == ft.type
        w0 == IF ft.warning = None THEN {} ELSE {ft.warning}
        invalid(sx, w, asked) ==
            [result |-> "false", self |-> sx, decisions |-> NoDecisions,
             filetype |-> filetype, warnings |-> w0 \cup w, asked |-> asked,
             makedirs |-> FALSE]
        rest(sx, asked) ==
            LET r == setup_targets(sx, ans, makedirs_ok)
            IN  [result |-> r.result, self |-> r.self, decisions |-> r.decisions,
                 filetype |-> filetype, warnings |-> w0,
                 asked |-> asked \cup {t \in {"h264", "lossless", "prores"} :
                                         r.decisions[t].prompts > 0},
                 makedirs |-> r.makedirs]
    IN  IF ~s.kunLydCheckBox
        THEN IF s.folder_path = None \/ s.folder_path = ""
             THEN invalid(s, {"Ingen mappe valgt"}, {})
             ELSE IF filetype = "dpx"
                  THEN LET c == check_dpx_files(s, s.folder_path, ans.ok)
                       IN  IF ~c.result
                           THEN invalid(c.self,
                                        IF c.warning = None THEN {} ELSE {c.warning},
                                        c.asked)
                           ELSE rest(c.self, c.asked)
                  ELSE rest([s EXCEPT !.video = s.mappe_input_field], {})
        ELSE rest(s, {})

-----------------------------------------------------------------------------
(* Command builders of src/Smelt.py *)

\* construct_dpx_commands
construct_dpx_commands(s) ==
    LET ffmpeg_input_pattern == join(s.folder_path, prefix(s.images_path) \o "%06d.dpx")
        ffmpeg_base == <<ffmpeg_path, "-v", "info", "-stats", "-progress", "-">>
        with_audio == s.inkluderLydCheckBox /\ exists(s.audio_file)
        ffmpeg_dpx == <<"-f", "image2", "-vsync", "0", "-framerate", s.fps,
                        "-start_number", "0", "-i", ffmpeg_input_pattern>>
                      \o (IF with_audio THEN <<"-i", s.audio_file>> ELSE << >>)
        audio_cmd == IF with_audio THEN <<"-c:a", "copy">> ELSE << >>
    IN  [s EXCEPT
          !.ffmpeg_base = ffmpeg_base,
          !.ffmpeg_lossless_cmd =
              ffmpeg_base \o s.ffmpeg_hardware_accel \o ffmpeg_dpx \o s.ffmpeg_encoder
              \o audio_cmd \o <<"-qp", "0", s.lossless_mov, s.proceed_lossless>>,
          !.ffmpeg_h264_cmd_direct =
              IF s.inkluderLydCheckBox
              THEN ffmpeg_base \o s.ffmpeg_hardware_accel \o ffmpeg_dpx \o audio_cmd
                   \o <<"-c:v", "libx264", "-pix_fmt", "yuv420p", "-vf", "scale=-2:1080",
                        "-preset", "slow", "-crf", "23", "-c:a", "aac", "-b:a", "224k",
                        "-map", "0:v:0", "-map", "1:a:0", s.h264_mp4, s.proceed_h264>>
              ELSE ffmpeg_base \o s.ffmpeg_hardware_accel \o ffmpeg_dpx
                   \o <<"-c:v", "libx264", "-pix_fmt", "yuv420p", "-vf", "scale=-2:1080",
                        "-preset", "slow", "-crf", "23",
                        "-map", "0:v:0", s.h264_mp4, s.proceed_h264>>,
          !.ffmpeg_prores_cmd =
              ffmpeg_base \o s.ffmpeg_hardware_accel
              \o <<"-i", s.lossless_mov, "-c:v", "prores", "-profile:v", "3",
                   "-vf", "scale=-2:1080", "-c:a", "pcm_s16le",
                   s.prores_mov, s.proceed_prores>>,
          !.ffmpeg_h264_cmd =
              ffmpeg_base \o s.ffmpeg_hardware_accel \o <<"-i", s.lossless_mov>>
              \o s.ffmpeg_encoder
              \o <<"-vf", "scale=-2:1080", "-pix_fmt", "yuv420p", "-preset", "slow",
                   "-crf", "23", "-c:a", "aac", "-b:a", "224k",
                   s.h264_mp4, s.proceed_h264>>]

\* construct_mxf_mov_commands
construct_mxf_mov_commands(s) ==
    LET ffmpeg_base == <<ffmpeg_path>>
        \* `self.inkluderLydCheckBox.isChecked and self.audio_file`: the bound
        \* method is always true, so only the audio file decides
        with_audio == s.audio_file # ""
        ffmpeg_video_audio == IF with_audio THEN <<"-i", s.video, "-i", s.audio_file>>
                                            ELSE <<"-i", s.video>>
        ffmpeg_audio_param == IF with_audio THEN <<"-c:a", "aac", "-b:a", "224k">>
                                            ELSE << >>
    IN  [s EXCEPT
          !.ffmpeg_dcp_cmd =
              ffmpeg_base \o s.ffmpeg_hardware_accel \o ffmpeg_video_audio \o s.ffmpeg_encoder
              \o <<"-preset", "slow", "-qp", "0", "-c:a", "copy", "-v", "info",
                   s.lossless_mov, s.proceed_lossless>>,
          !.ffmpeg_dcp_prores =
              ffmpeg_base \o s.ffmpeg_hardware_accel \o ffmpeg_video_audio
              \o <<"-c:v", "prores", "-profile:v", "3", "-pix_fmt", "yuv422p10le",
                   "-vf", "scale=-2:1080", "-c:a", "pcm_s16le",
                   s.prores_mov, s.proceed_prores>>,
          !.ffmpeg_dcp_h264_cmd =
              ffmpeg_base \o s.ffmpeg_hardware_accel \o ffmpeg_video_audio
              \o <<"-c:v", "libx264", "-pix_fmt", "yuv420p", "-preset", "slow",
                   "-crf", "21", "-ac", "2">>
              \o ffmpeg_audio_param
              \o <<"-v", "info", s.h264_mp4, s.proceed_h264>>,
          !.ffmpeg_h264_from_prores_cmd =
              ffmpeg_base \o s.ffmpeg_hardware_accel \o ffmpeg_video_audio
              \o <<"-c:v", "libx264", "-vf", "scale=-2:1080", "-pix_fmt", "yuv420p",
                   "-preset", "slow", "-crf", "23", "-v", "info",
                   s.h264_mp4, s.proceed_h264>>]

\* construct_audio_commands
construct_audio_commands(s) ==
    [s EXCEPT
      !.ffmpeg_audio_cmd =
          <<ffmpeg_path, "-i", s.audio_file, "-c:a", "aac", "-b:a", "192k", "-vn",
            "-v", "info", s.h264_mp4, s.proceed_h264>>,
      !.ffmpeg_lossless_audio_cmd =
          <<ffmpeg_path, "-i", s.audio_file, "-c:a", "pcm_s16le", "-vn",
            "-v", "info", s.lossless_mov, s.proceed_lossless>>]

-----------------------------------------------------------------------------
(* Step selection: handle_video_operations, handle_audio_operations *)

\* the step list with the mezzanine test of the sequence branch turned around
step_list_mezzanin_inverted(filetype, mezzanin) ==
    IF filetype = "mxf"
    THEN <<"ffmpeg_dcp_cmd", "ffmpeg_dcp_prores", "ffmpeg_dcp_h264_cmd">>
    ELSE IF filetype = "mov"
    THEN <<"ffmpeg_h264_from_prores_cmd">>
    ELSE IF mezzanin
    THEN <<"ffmpeg_h264_cmd_direct">>
    ELSE <<"ffmpeg_lossless_cmd", "ffmpeg_prores_cmd", "ffmpeg_h264_cmd">>

\* the list handle_video_operations hands to execute_ffmpeg_commands: the
\* if / elif / elif / else over the file type and the mezzanine checkbox
step_list(filetype, mezzanin) ==
    IF filetype = "mxf"
    THEN <<"ffmpeg_dcp_cmd", "ffmpeg_dcp_prores", "ffmpeg_dcp_h264_cmd">>
    ELSE IF filetype = "mov"
    THEN <<"ffmpeg_h264_from_prores_cmd">>
    ELSE IF ~mezzanin
    THEN <<"ffmpeg_h264_cmd_direct">>
    ELSE <<"ffmpeg_lossless_cmd", "ffmpeg_prores_cmd", "ffmpeg_h264_cmd">>

\* handle_video_operations up to its call of execute_ffmpeg_commands: the object
\* after the builders ran, the builders invoked, and the list handed over
handle_video_operations(s) ==
    LET filetype == determine_file_type(s).type
    IN  [self |-> CASE filetype = "dpx" -> construct_dpx_commands(s)
                    [] filetype \in {"mxf", "mov"} -> construct_mxf_mov_commands(s)
                    [] OTHER -> s,
         built |-> CASE filetype = "dpx" -> {"construct_dpx_commands"}
                     [] filetype \in {"mxf", "mov"} -> {"construct_mxf_mov_commands"}
                     [] OTHER -> {},
         commands |-> step_list(filetype, s.mezzaninfilCheckBox)]

\* handle_audio_operations up to its call of execute_ffmpeg_commands
handle_audio_operations(s) ==
    [self |-> construct_audio_commands(s),
     built |-> {"construct_audio_commands"},
     commands |-> <<"ffmpeg_lossless_audio_cmd", "ffmpeg_audio_cmd">>]

-----------------------------------------------------------------------------
(* The state machine *)

\* "no value" and "the value x" of a local that starts as None
Nothing == << >>
Some(x) == <<x>>

\* The locals of one call of run_ffmpeg_command, the child it started, the two
\* pipes and the two reader threads; pc "none": no call is looked into.
NoRunner ==
    [ pc |-> "none",               \* the GUI thread: get, poll, join_stdout,
                                   \* join_stderr, returned
      child |-> "none",            \* running, exited
      returncode |-> None,         \* the child's exit code once it exited
      wrote |-> << >>,             \* every line the child wrote to stderr
      stdout_wrote |-> 0,          \* number of lines the child wrote to stdout
      stderr_pipe |-> << >>,       \* written by the child, not yet read
      stdout_pipe |-> << >>,
      stderr_thread |-> "none",    \* readline, done
      stdout_thread |-> "none",
      stderr_queue |-> << >>,
      stdout_queue |-> << >>,
      total_duration |-> Nothing,
      stderr_output |-> << >>,
      progress |-> << >>,          \* the values given to progress_bar.setValue,
                                   \* each with the number of the line it came from
      result |-> None ]            \* what run_ffmpeg_command returned

\* One call of select_audio in which the operator picks a file of a multichannel
\* set: the locals of recognize_and_combine_audio_files and the child it starts;
\* pc "none": no such file has been selected.
NoCombiner ==
    [ pc |-> "none",               \* loop, join (inside run_ffmpeg_command), done
      reply |-> FALSE,             \* the answer to 'Confirm Combination'
      matching_files |-> {},       \* the suffixes whose file exists
      warning |-> None,
      command |-> NoneCmd,         \* ffmpeg_combine_audio_cmd
      launched |-> 0,              \* children started by the call
      child |-> "none",            \* the combine child: running, exited
      returncode |-> None,         \* its exit code
      result |-> "none" ]          \* what recognize_and_combine_audio_files
                                   \* returned: a path, or None

NoProcess == [state |-> "none", returncode |-> None, cmd |-> None, signalled |-> FALSE]

\* History of the current run_smelt call.  It is written by the actions, read only
\* by the properties below, and forgotten when run_smelt returns.
NoJob ==
    [ setup |-> "none",            \* result of initial_setup
      audio_only |-> FALSE,        \* kunLydCheckBox when initial_setup ran
      mezzanin |-> FALSE,          \* mezzaninfilCheckBox when initial_setup ran
      prores |-> FALSE,            \* inkluderProresCheckBox when initial_setup ran
      text |-> "",                 \* mappe_input_field when initial_setup ran
      filetype |-> None,           \* determine_file_type in initial_setup
      had_dpx |-> FALSE,           \* the input folder held a *.dpx file
      existed |-> {},              \* the targets on disk when initial_setup ran
      asked |-> {},                \* the prompts shown by initial_setup
      answers |-> [ok |-> FALSE, h264 |-> FALSE, lossless |-> FALSE, prores |-> FALSE],
      decisions |-> NoDecisions,
      warnings |-> {},             \* warnings shown during validation
      entered |-> {},              \* handlers of the running phase that were entered
      built |-> {},                \* command builders invoked
      launched |-> << >>,          \* attribute names whose argv was handed to Popen
      exits |-> << >>,             \* return codes of the children that exited
      abort |-> FALSE,             \* the operator confirmed 'Avbryt'
      abort_active |-> FALSE,      \* ... while the child of the step was alive
      abort_at |-> 0,              \* steps launched when 'Avbryt' was first confirmed
      raised |-> FALSE,            \* an exception reached run_smelt's handler
      status |-> "none" ]          \* the closing dialog: Success, Terminated, Error

InitialFiles == {AudioWav, FilmMxf, FilmMov, FilmAvi}

Init ==
    /\ self = Smelt__init__
    /\ pc = "idle"
    /\ commands = << >>
    /\ i = 0
    /\ process = NoProcess
    /\ \E dpx \in SUBSET {DpxFrame} : fs = InitialFiles \cup dpx
    /\ cuda \in BOOLEAN
    /\ job = NoJob
    /\ jobs = 0
    /\ runner = NoRunner
    /\ combiner = NoCombiner

CanEdit == pc = "idle" /\ self.enabled /\ jobs < MaxJobs

\* a click on inkluderLydCheckBox
ClickLyd ==
    /\ CanEdit
    /\ self' = check_box_logic(
                 [self EXCEPT !.inkluderLydCheckBox = ~self.inkluderLydCheckBox], "lyd")
    /\ UNCHANGED <<pc, commands, i, process, fs, cuda, job, jobs, runner, combiner>>

\* a click on inkluderProresCheckBox
ClickProres ==
    /\ CanEdit
    /\ self' = check_box_logic(
                 [self EXCEPT !.inkluderProresCheckBox = ~self.inkluderProresCheckBox], "prores")
    /\ UNCHANGED <<pc, commands, i, process, fs, cuda, job, jobs, runner, combiner>>

\* a click on kunLydCheckBox
ClickKunLyd ==
    /\ CanEdit
    /\ self' = check_box_logic(
                 [self EXCEPT !.kunLydCheckBox = ~self.kunLydCheckBox], "kunlyd")
    /\ UNCHANGED <<pc, commands, i, process, fs, cuda, job, jobs, runner, combiner>>

\* a click on mezzaninfilCheckBox (no handler is connected)
ClickMezzanin ==
    /\ CanEdit
    /\ self' = [self EXCEPT !.mezzaninfilCheckBox = ~self.mezzaninfilCheckBox]
    /\ UNCHANGED <<pc, commands, i, process, fs, cuda, job, jobs, runner, combiner>>

\* the operator edits mappe_input_field
TypeMappe ==
    /\ CanEdit
    /\ \E text \in MappeTexts : self' = [self EXCEPT !.mappe_input_field = text]
    /\ UNCHANGED <<pc, commands, i, process, fs, cuda, job, jobs, runner, combiner>>

\* the operator edits fil_input_field
TypeFil ==
    /\ CanEdit
    /\ \E text \in FilTexts : self' = [self EXCEPT !.fil_input_field = text]
    /\ UNCHANGED <<pc, commands, i, process, fs, cuda, job, jobs, runner, combiner>>

Answers == [ok : BOOLEAN, h264 : BOOLEAN, lossless : BOOLEAN, prores : BOOLEAN]

\* A click on execButton while it is bound to run_smelt: run_smelt up to the first
\* point where it waits (lines 654-675): for a child, or for the operator to
\* dismiss a message.  The modal prompts of the validation are answered by `ans`
\* (a prompt that is not shown has the answer FALSE); `makedirs_ok` tells whether
\* os.makedirs succeeds (TRUE when it is not reached).
run_smelt ==
    /\ pc = "idle"
    /\ self.execButton = "Kjor"
    /\ jobs < MaxJobs
    /\ \E ans \in Answers, makedirs_ok \in BOOLEAN :
         \E s0 \in {lock_down(check_path_validity(self), TRUE)} :
         \E r \in {initial_setup(s0, ans, makedirs_ok)} :
         LET j0 == [NoJob EXCEPT
                      !.setup = r.result,
                      !.audio_only = s0.kunLydCheckBox,
                      !.mezzanin = s0.mezzaninfilCheckBox,
                      !.prores = s0.inkluderProresCheckBox,
                      !.text = s0.mappe_input_field,
                      !.filetype = r.filetype,
                      !.had_dpx = s0.folder_path # None /\ glob_dpx(s0.folder_path) # << >>,
                      !.existed = {r.self.h264_mp4, r.self.lossless_mov, r.self.prores_mov}
                                  \cap fs,
                      !.asked = r.asked,
                      !.answers = ans,
                      !.decisions = r.decisions,
                      !.warnings = r.warnings]
         IN  /\ \A q \in {"ok", "h264", "lossless", "prores"} : q \notin r.asked => ~ans[q]
             /\ ~r.makedirs => makedirs_ok
             /\ CASE r.result = "false" ->
                    /\ self' = r.self
                    /\ pc' = "rejected"
                    /\ job' = j0
                    /\ UNCHANGED <<commands, i>>
               [] r.result = "raise" ->
                    \* the exception leaves run_smelt before its try block
                    /\ self' = r.self
                    /\ pc' = "crashed"
                    /\ job' = j0
                    /\ UNCHANGED <<commands, i>>
               [] OTHER ->
                    \E s1 \in {[r.self EXCEPT !.process_terminated = FALSE]} :
                    \E h \in {IF ~s1.kunLydCheckBox
                              THEN handle_video_operations(s1)
                              ELSE handle_audio_operations(s1)} :
                        /\ self' = h.self
                        /\ pc' = "exec"
                        /\ commands' = h.commands
                        /\ i' = 1
                        /\ job' = [j0 EXCEPT
                                     !.built = h.built,
                                     !.entered = {IF ~s1.kunLydCheckBox
                                                  THEN "handle_video_operations"
                                                  ELSE "handle_audio_operations",
                                                  "execute_ffmpeg_commands"}]
    /\ jobs' = jobs + 1
    /\ UNCHANGED <<process, fs, cuda, runner, combiner>>

\* execute_ffmpeg_commands: one turn of its loop up to Popen in run_ffmpeg_command
execute_ffmpeg_commands ==
    /\ pc = "exec"
    /\ IF i > Len(commands)
       THEN /\ pc' = "finish"
            /\ UNCHANGED <<process, job>>
       ELSE LET cmd == commands[i]
                command == self[cmd]     \* hasattr(self, cmd) holds: __init__ sets it
            IN  IF command = NoneCmd
                THEN \* ' '.join(None) raises TypeError
                     /\ pc' = "finish"
                     /\ job' = [job EXCEPT !.raised = TRUE]
                     /\ UNCHANGED process
                ELSE /\ process' = [state |-> "running", returncode |-> None,
                                    cmd |-> cmd, signalled |-> FALSE]
                     /\ pc' = "proc"
                     /\ job' = [job EXCEPT !.launched = Append(@, cmd)]
    /\ UNCHANGED <<self, commands, i, fs, cuda, jobs, runner, combiner>>

ExitCodes == {0, 1}
SIGTERM == 15

\* the output path of an argv: the element before the overwrite flag
writes_to(command) == command[Len(command) - 1]

\* the child of self.process exits; a child that exits with 0 has written its target
child_exits ==
    /\ process.state = "running"
    /\ \E code \in ExitCodes :
         LET returncode == IF process.signalled THEN -SIGTERM ELSE code
         IN  /\ process' = [process EXCEPT !.state = "exited", !.returncode = returncode]
             /\ fs' = IF returncode = 0 THEN fs \cup {writes_to(self[process.cmd])} ELSE fs
             /\ job' = [job EXCEPT !.exits = Append(@, returncode)]
    /\ UNCHANGED <<self, pc, commands, i, cuda, jobs, runner, combiner>>

\* abort without `self.process_terminated = True`
abort_without_flag ==
    /\ pc = "proc"
    /\ self.execButton = "Avbryt"
    /\ process' = IF process.state = "running"
                  THEN [process EXCEPT !.signalled = TRUE]
                  ELSE process
    /\ job' = [job EXCEPT !.abort = TRUE,
                         !.abort_active = @ \/ process.state = "running",
                         !.abort_at = IF job.abort THEN @ ELSE Len(job.launched)]
    /\ UNCHANGED <<self, pc, commands, i, fs, cuda, jobs, runner, combiner>>

\* A click on execButton while it is bound to abort, delivered by processEvents
\* inside run_ffmpeg_command, answered Yes in 'Bekreft avbrytelse' (the answer No
\* changes nothing)
abort ==
    /\ pc = "proc"
    /\ self.execButton = "Avbryt"
    \* Popen.terminate() does nothing once the child has been reaped
    /\ process' = IF process.state = "running"
                  THEN [process EXCEPT !.signalled = TRUE]
                  ELSE process
    /\ self' = [self EXCEPT !.process_terminated = TRUE]
    /\ job' = [job EXCEPT !.abort = TRUE,
                         !.abort_active = @ \/ process.state = "running",
                         !.abort_at = IF job.abort THEN @ ELSE Len(job.launched)]
    /\ UNCHANGED <<pc, commands, i, fs, cuda, jobs, runner, combiner>>

\* execute_ffmpeg_commands without its `if not ...: break`
run_ffmpeg_command_returns_without_break ==
    /\ pc = "proc"
    /\ process.state = "exited"
    /\ pc' = "exec"
    /\ i' = i + 1
    /\ UNCHANGED <<self, commands, process, fs, cuda, job, jobs, runner, combiner>>

\* run_ffmpeg_command returns (lines 1209-1216) and execute_ffmpeg_commands
\* tests its result (lines 1107-1108)
run_ffmpeg_command_returns ==
    /\ pc = "proc"
    /\ process.state = "exited"
    /\ IF process.returncode # 0
       THEN /\ pc' = "finish"
            /\ i' = i
       ELSE /\ pc' = "exec"
            /\ i' = i + 1
    /\ UNCHANGED <<self, commands, process, fs, cuda, job, jobs, runner, combiner>>

\* the closing message of run_smelt (lines 677-691)
closing_dialog(raised, process_terminated) ==
    IF raised THEN "Error"
    ELSE IF ~process_terminated THEN "Success" ELSE "Terminated"

\* run_smelt after handle_*_operations returned or raised: the closing message
run_smelt_finish ==
    /\ pc = "finish"
    /\ job' = [job EXCEPT !.status = closing_dialog(job.raised, self.process_terminated)]
    /\ pc' = "dialog"
    /\ UNCHANGED <<self, commands, i, process, fs, cuda, jobs, runner, combiner>>

\* run_smelt returns: lines 665-667 after a failed validation, the finally block
\* (lines 692-694) otherwise.  The locals of execute_ffmpeg_commands are gone;
\* self.process keeps referring to the last child.
run_smelt_returns ==
    /\ pc \in {"rejected", "dialog"}
    /\ self' = lock_down(self, FALSE)
    /\ pc' = "idle"
    /\ job' = NoJob
    /\ commands' = << >>
    /\ i' = 0
    /\ UNCHANGED <<process, fs, cuda, jobs, runner, combiner>>

Next ==
    \/ ClickLyd
    \/ ClickProres
    \/ ClickKunLyd
    \/ ClickMezzanin
    \/ TypeMappe
    \/ TypeFil
    \/ run_smelt
    \/ execute_ffmpeg_commands
    \/ child_exits
    \/ abort
    \/ run_ffmpeg_command_returns
    \/ run_smelt_finish
    \/ run_smelt_returns

Spec == Init /\ [][Next]_vars

-----------------------------------------------------------------------------
(* Vocabulary of the properties *)

\* run_smelt is between its call of a handle_*_operations method and its return
Running == pc \in {"exec", "proc", "finish", "dialog"}

\* every child of the job so far exited with code 0
AllZero(exits) == \A k \in 1..Len(exits) : exits[k] = 0

\* the job went through its whole list: no exception, and every child exited with 0
Completed ==
    /\ pc = "dialog"
    /\ ~job.raised
    /\ Len(job.exits) = Len(job.launched)
    /\ AllZero(job.exits)

\* the operand of the first '-i' of an argv
FirstInput(command) ==
    LET k == CHOOSE n \in 1..Len(command) :
                 /\ command[n] = "-i"
                 /\ \A m \in 1..(n - 1) : command[m] # "-i"
    IN  command[k + 1]

\* what an argv reads and what it writes, in the terms of the step table
Source(command) ==
    LET in == FirstInput(command)
    IN  IF in = self.lossless_mov THEN "lossless"
        ELSE IF in = join(self.folder_path, "f%06d.dpx") THEN "sequence"
        ELSE IF job.audio_only /\ in = self.audio_file THEN "audio"
        ELSE IF in = self.video THEN "container"
        ELSE "other"

Target(command) ==
    LET out == writes_to(command)
    IN  IF out = self.lossless_mov THEN "lossless"
        ELSE IF out = self.prores_mov THEN "prores"
        ELSE IF out = self.h264_mp4 THEN "h264"
        ELSE "other"

\* the <<source, target>> pairs of a list of command attributes of self
Kinds(names) ==
    [k \in 1..Len(names) |->
        IF self[names[k]] = NoneCmd THEN <<"none", "none">>
        ELSE <<Source(self[names[k]]), Target(self[names[k]])>>]

SequenceJob == Running /\ job.filetype = "dpx" /\ ~job.audio_only
ContainerJob == Running /\ job.filetype \in {"mxf", "mov"} /\ ~job.audio_only
AudioOnlyJob == Running /\ job.audio_only

-----------------------------------------------------------------------------
(* C1: the children of one step list are started in the order of the list, a *)
(* step is started only after every step before it exited with code 0, and   *)
(* after a child exited with a non-zero code no later step is ever started.  *)
C1_StepsInOrderStopOnFailure ==
    /\ Len(job.launched) <= Len(commands)
    /\ \A k \in 1..Len(job.launched) : job.launched[k] = commands[k]
    /\ Len(job.exits) \in {Len(job.launched) - 1, Len(job.launched)}
    /\ \A k \in 1..Len(job.exits) : job.exits[k] # 0 => k = Len(job.launched)
    /\ process.state = "running" => Len(job.exits) = Len(job.launched) - 1

\* the second of three steps failed and the job ended without starting the third
C1_Witness ==
    /\ pc = "dialog"
    /\ Len(commands) = 3
    /\ Len(job.launched) = 2
    /\ job.exits = <<0, 1>>

(* C2: when a child exited with a non-zero code and the operator did not     *)
(* cancel, the job is reported as failed, never as 'Konvertering fullfort'.  *)
C2_FailedStepIsReportedFailed ==
    (pc = "dialog" /\ ~AllZero(job.exits) /\ ~job.abort)
        => (job.status = "Error" /\ job.status # "Success")

(* C3: an image-sequence job with mezzanine and ProRes both off runs exactly *)
(* [direct-h264]; with both on it runs exactly [lossless, prores,            *)
(* h264-from-lossless], in that order.                                       *)
C3_SequenceStepsBothOffBothOn ==
    SequenceJob =>
        /\ (~job.mezzanin /\ ~job.prores) =>
              /\ commands = <<"ffmpeg_h264_cmd_direct">>
              /\ Kinds(commands) = << <<"sequence", "h264">> >>
        /\ (job.mezzanin /\ job.prores) =>
              /\ commands = <<"ffmpeg_lossless_cmd", "ffmpeg_prores_cmd", "ffmpeg_h264_cmd">>
              /\ Kinds(commands) = << <<"sequence", "lossless">>, <<"lossless", "prores">>,
                                      <<"lossless", "h264">> >>
        /\ ((job.mezzanin = job.prores) /\ Completed) => job.launched = commands

\* a sequence job with both toggles on ran its three steps to the end
C3_Witness ==
    /\ SequenceJob /\ job.mezzanin /\ job.prores
    /\ Completed
    /\ Len(job.launched) = 3

(* C4: an image-sequence job with mezzanine off and ProRes on runs exactly   *)
(* [prores-from-sequence, direct-h264]; with mezzanine on and ProRes off it  *)
(* runs exactly [lossless, h264-from-lossless], so that no child writing the *)
(* ProRes target is started while the ProRes toggle is off.                  *)
C4_SequenceStepsOneToggle ==
    (SequenceJob /\ Completed) =>
        /\ (~job.mezzanin /\ job.prores) =>
              Kinds(job.launched) = << <<"sequence", "prores">>, <<"sequence", "h264">> >>
        /\ (job.mezzanin /\ ~job.prores) =>
              /\ Kinds(job.launched) = << <<"sequence", "lossless">>, <<"lossless", "h264">> >>
              /\ \A k \in 1..Len(job.launched) :
                    writes_to(self[job.launched[k]]) # self.prores_mov

(* C5: a container job (MXF or MOV alike) runs [lossless?, prores?,          *)
(* h264-from-source]: lossless iff mezzanine is on, ProRes iff the ProRes    *)
(* toggle is on, H.264 always last.                                          *)
ContainerSteps(mezzanin, prores) ==
    (IF mezzanin THEN << <<"container", "lossless">> >> ELSE << >>)
    \o (IF prores THEN << <<"container", "prores">> >> ELSE << >>)
    \o << <<"container", "h264">> >>

C5_ContainerSteps ==
    (ContainerJob /\ Completed) =>
        Kinds(job.launched) = ContainerSteps(job.mezzanin, job.prores)

(* C6: an audio-only job (here: one whose audio file is on disk) runs        *)
(* [lossless-audio?, aac-audio]: the PCM step iff mezzanine is on, the AAC   *)
(* step always last.                                                         *)
AudioSteps(mezzanin) ==
    (IF mezzanin THEN << <<"audio", "lossless">> >> ELSE << >>)
    \o << <<"audio", "h264">> >>

C6_AudioOnlySteps ==
    (AudioOnlyJob /\ Completed /\ isfile(self.audio_file))
        => Kinds(job.launched) = AudioSteps(job.mezzanin)

(* C7: an image-sequence job whose folder holds no *.dpx file, or whose      *)
(* first frame the operator rejects, ends in validation: no command builder  *)
(* is invoked, no child is started, and run_smelt is about to unlock.        *)
C7_NoFramesNoRun ==
    (/\ job.setup # "none"
     /\ job.filetype = "dpx"
     /\ ~job.audio_only
     /\ (~job.had_dpx \/ ~job.answers.ok))
        => /\ job.setup = "false"
           /\ pc = "rejected"
           /\ job.built = {}
           /\ job.entered = {}
           /\ job.launched = << >>
           /\ process.state # "running"

\* the operator rejected the first frame that was found
C7_Witness ==
    /\ pc = "rejected"
    /\ job.filetype = "dpx"
    /\ job.had_dpx
    /\ "ok" \in job.asked
    /\ ~job.answers.ok

(* C8: a video job whose input field is empty or names a file of an          *)
(* unsupported type is refused during validation: the running phase is never *)
(* entered and no child is started.                                          *)
C8_UnsupportedInputRefused ==
    (/\ job.setup # "none"
     /\ ~job.audio_only
     /\ job.filetype = None)
        => /\ job.setup # "ok"
           /\ ~Running
           /\ job.entered = {}
           /\ job.launched = << >>

(* C9: the overwrite decision of a target that is not requested is '-n' with *)
(* no prompt and no look at the disk; of a requested target that does not    *)
(* exist '-y' with no prompt; of a requested target that exists the answer   *)
(* to exactly one prompt: '-y' on yes, '-n' on no.                           *)
DecisionAsSpecified(requested, path, answer, decision) ==
    /\ ~requested =>
          decision = [flag |-> "-n", checked |-> 0, prompts |-> 0]
    /\ (requested /\ path \notin job.existed) =>
          decision.flag = "-y" /\ decision.prompts = 0
    /\ (requested /\ path \in job.existed) =>
          /\ decision.prompts = 1
          /\ decision.flag = IF answer THEN "-y" ELSE "-n"

C9_OverwriteDecisions ==
    job.setup = "ok" =>
        /\ DecisionAsSpecified(job.mezzanin, self.lossless_mov,
                               job.answers.lossless, job.decisions.lossless)
        /\ DecisionAsSpecified(job.prores, self.prores_mov,
                               job.answers.prores, job.decisions.prores)
        /\ DecisionAsSpecified(TRUE, self.h264_mp4,
                               job.answers.h264, job.decisions.h264)
        /\ self.proceed_lossless = job.decisions.lossless.flag
        /\ self.proceed_prores = job.decisions.prores.flag
        /\ self.proceed_h264 = job.decisions.h264.flag

\* the three cases at once: lossless exists and the operator declines, ProRes is
\* not requested, H.264 does not exist
C9_Witness ==
    /\ job.setup = "ok"
    /\ job.mezzanin /\ self.lossless_mov \in job.existed /\ ~job.answers.lossless
    /\ ~job.prores
    /\ self.h264_mp4 \notin job.existed

-----------------------------------------------------------------------------
(* Command builders of src/ffmpeg_commands.py.  They are module-level         *)
(* functions that take the Smelt object and read the attributes set by the    *)
(* job's setup; besides the attributes of Smelt.__init__ they read            *)
(* self.ffmpeg_path and self.temp_mov and write self.ffmpeg_convert.          *)

TempMov == "/p/lossless/temp.mov"

\* str(Utils.extract_number(images_path)): the first run of digits of the basename
extract_number(filename) ==
    IF basename(filename) = "f000001.dpx" THEN "1" ELSE "inf"

ffmpeg_commands_construct_dpx_commands(s) ==
    LET ffmpeg_input_pattern == join(s.folder_path, prefix(s.images_path) \o "%06d.dpx")
        ffmpeg_base == <<s.ffmpeg_path, "-v", "info", "-stats", "-progress", "-", "-report">>
        with_audio == s.inkluderLydCheckBox /\ exists(s.audio_file)
        ffmpeg_dpx == <<"-f", "image2", "-vsync", "0", "-framerate", s.fps,
                        "-start_number", extract_number(s.images_path),
                        "-i", ffmpeg_input_pattern>>
                      \o (IF with_audio THEN <<"-i", s.audio_file>> ELSE << >>)
        audio_cmd == IF with_audio THEN <<"-c:a", "copy">> ELSE << >>
    IN  [s EXCEPT
          !.ffmpeg_base = ffmpeg_base,
          !.ffmpeg_lossless_cmd =
              ffmpeg_base \o s.ffmpeg_hardware_accel \o ffmpeg_dpx \o s.ffmpeg_encoder
              \o audio_cmd
              \o <<"-preset", "slow", "-qp", "0", s.lossless_mov, s.proceed_lossless>>,
          !.ffmpeg_h264_cmd_direct =
              IF s.inkluderLydCheckBox
              THEN ffmpeg_base \o s.ffmpeg_hardware_accel \o ffmpeg_dpx \o audio_cmd
                   \o <<"-c:v", "libx264", "-pix_fmt", "yuv420p", "-vf", "scale=-2:1080",
                        "-preset", "slow", "-crf", "23", "-c:a", "aac", "-b:a", "224k",
                        "-map", "0:v:0", "-map", "1:a:0", s.h264_mp4, s.proceed_h264>>
              ELSE ffmpeg_base \o s.ffmpeg_hardware_accel \o ffmpeg_dpx
                   \o <<"-c:v", "libx264", "-pix_fmt", "yuv420p", "-vf", "scale=-2:1080",
                        "-preset", "slow", "-crf", "23",
                        "-map", "0:v:0", s.h264_mp4, s.proceed_h264>>,
          !.ffmpeg_prores_cmd =
              ffmpeg_base
              \o <<"-hwaccel", "auto",
                   "-i", IF cuda_available THEN s.temp_mov ELSE s.lossless_mov,
                   "-vf", "scale=-2:1080,format=yuv422p10le",
                   "-c:v", "prores", "-profile:v", "3",
                   "-vf", "scale=-2:1080", "-c:a", "pcm_s16le",
                   s.prores_mov, s.proceed_prores>>,
          !.ffmpeg_convert =
              IF cuda_available
              THEN ffmpeg_base
                   \o <<"-i", s.lossless_mov, "-pix_fmt", "yuv422p10le",
                        "-vf", "scale=in_color_matrix=bt709:out_color_matrix=bt709",
                        s.temp_mov, s.proceed_prores>>
              ELSE s.ffmpeg_convert,
          !.ffmpeg_h264_cmd =
              ffmpeg_base \o s.ffmpeg_hardware_accel \o <<"-i", s.lossless_mov>>
              \o s.ffmpeg_encoder
              \o <<"-vf", "scale=-2:1080", "-pix_fmt", "yuv420p", "-preset", "slow",
                   "-crf", "23", "-c:a", "aac", "-b:a", "224k",
                   s.h264_mp4, s.proceed_h264>>]

ffmpeg_commands_construct_mxf_mov_commands(s) ==
    LET ffmpeg_base == <<s.ffmpeg_path, "-report">>
        \* `self.inkluderLydCheckBox.isChecked and self.audio_file`: the bound
        \* method is always true, so only the audio file decides
        with_audio == s.audio_file # ""
        ffmpeg_video_audio == IF with_audio THEN <<"-i", s.video, "-i", s.audio_file>>
                                            ELSE <<"-i", s.video>>
        ffmpeg_audio_param == IF with_audio THEN <<"-c:a", "aac", "-b:a", "224k">>
                                            ELSE << >>
    IN  [s EXCEPT
          !.ffmpeg_dcp_cmd =
              ffmpeg_base \o s.ffmpeg_hardware_accel \o ffmpeg_video_audio \o s.ffmpeg_encoder
              \o <<"-preset", "slow", "-qp", "0", "-c:a", "copy", "-v", "info",
                   s.lossless_mov, s.proceed_lossless>>,
          !.ffmpeg_dcp_prores =
              ffmpeg_base \o s.ffmpeg_hardware_accel \o ffmpeg_video_audio
              \o <<"-c:v", "prores", "-profile:v", "3", "-pix_fmt", "yuv422p10le",
                   "-vf", "scale=-2:1080", "-c:a", "pcm_s16le",
                   s.prores_mov, s.proceed_prores>>,
          !.ffmpeg_dcp_h264_cmd =
              ffmpeg_base \o s.ffmpeg_hardware_accel \o ffmpeg_video_audio
              \o <<"-c:v", "libx264", "-pix_fmt", "yuv420p", "-preset", "slow",
                   "-crf", "21", "-ac", "2">>
              \o ffmpeg_audio_param
              \o <<"-v", "info", s.h264_mp4, s.proceed_h264>>,
          !.ffmpeg_h264_from_prores_cmd =
              ffmpeg_base \o s.ffmpeg_hardware_accel \o ffmpeg_video_audio
              \o <<"-c:v", "libx264", "-vf", "scale=-2:1080", "-pix_fmt", "yuv420p",
                   "-preset", "slow", "-crf", "23", "-v", "info",
                   s.h264_mp4, s.proceed_h264>>]

ffmpeg_commands_construct_audio_commands(s) ==
    [s EXCEPT
      !.ffmpeg_audio_cmd =
          <<s.ffmpeg_path, "-report", "-i", s.audio_file, "-c:a", "aac", "-b:a", "192k",
            "-vn", "-v", "info", s.h264_mp4, s.proceed_h264>>,
      !.ffmpeg_lossless_audio_cmd =
          <<s.ffmpeg_path, "-report", "-i", s.audio_file, "-c:a", "pcm_s16le",
            "-vn", "-v", "info", s.lossless_mov, s.proceed_lossless>>]

\* The object a builder is handed: the attributes of a job that passed its
\* setup, with the three overwrite decisions of the job in proceed_*.
Flags == {"-y", "-n"}

BuilderInput(lyd, audio_file, video, accel, lossless, prores, h264) ==
    [ffmpeg_path |-> ffmpeg_path, temp_mov |-> TempMov, ffmpeg_convert |-> NoneCmd]
    @@ [Smelt__init__ EXCEPT
          !.inkluderLydCheckBox = lyd,
          !.folder_path = Dir,
          !.folder_name = basename(Dir),
          !.images_path = DpxFrame,
          !.video = video,
          !.audio_file = audio_file,
          !.fps = Smelt__init__.fpsCounter,
          !.ffmpeg_hardware_accel = hardware_accel(accel),
          !.ffmpeg_encoder = encoder(accel),
          !.lossless_mov = join(join(Dir, "lossless"), basename(Dir) \o ".mov"),
          !.prores_mov = join(join(Dir, "lossless"), basename(Dir) \o "_prores.mov"),
          !.h264_mp4 = join(join(Dir, "lossless"), "nb-no_" \o basename(Dir) \o ".mp4"),
          !.proceed_lossless = lossless,
          !.proceed_prores = prores,
          !.proceed_h264 = h264]

InitCommands ==
    /\ cuda \in BOOLEAN
    /\ fs = InitialFiles \cup {DpxFrame}
    /\ \E lyd \in BOOLEAN, audio_file \in {"", AudioWav}, video \in {FilmMxf, FilmMov},
          lossless \in Flags, prores \in Flags, h264 \in Flags :
          self = BuilderInput(lyd, audio_file, video, cuda, lossless, prores, h264)
    /\ pc = "idle"
    /\ commands = << >>
    /\ i = 0
    /\ process = NoProcess
    /\ job = NoJob
    /\ jobs = 0
    /\ runner = NoRunner
    /\ combiner = NoCombiner

\* one action per builder of the two source files
BuildDpx ==
    /\ self' = construct_dpx_commands(self)
    /\ UNCHANGED <<pc, commands, i, process, fs, cuda, job, jobs, runner, combiner>>

BuildMxfMov ==
    /\ self' = construct_mxf_mov_commands(self)
    /\ UNCHANGED <<pc, commands, i, process, fs, cuda, job, jobs, runner, combiner>>

BuildAudio ==
    /\ self' = construct_audio_commands(self)
    /\ UNCHANGED <<pc, commands, i, process, fs, cuda, job, jobs, runner, combiner>>

FfmpegCommandsBuildDpx ==
    /\ self' = ffmpeg_commands_construct_dpx_commands(self)
    /\ UNCHANGED <<pc, commands, i, process, fs, cuda, job, jobs, runner, combiner>>

FfmpegCommandsBuildMxfMov ==
    /\ self' = ffmpeg_commands_construct_mxf_mov_commands(self)
    /\ UNCHANGED <<pc, commands, i, process, fs, cuda, job, jobs, runner, combiner>>

FfmpegCommandsBuildAudio ==
    /\ self' = ffmpeg_commands_construct_audio_commands(self)
    /\ UNCHANGED <<pc, commands, i, process, fs, cuda, job, jobs, runner, combiner>>

NextCommands ==
    \/ BuildDpx
    \/ BuildMxfMov
    \/ BuildAudio
    \/ FfmpegCommandsBuildDpx
    \/ FfmpegCommandsBuildMxfMov
    \/ FfmpegCommandsBuildAudio

SpecCommands == InitCommands /\ [][NextCommands]_vars

\* the overwrite decision the job computed for a path, None for a path it
\* computed no decision for
DecisionFor(path) ==
    IF path = self.lossless_mov THEN self.proceed_lossless
    ELSE IF path = self.prores_mov THEN self.proceed_prores
    ELSE IF path = self.h264_mp4 THEN self.proceed_h264
    ELSE None

\* the attributes that hold an argv
ArgvAttrs == {a \in DOMAIN self : a \in CommandAttrs \cup {"ffmpeg_convert"}}

(* C10: every argv the command builders build ends with [outputPath,         *)
(* overwriteFlag], where the flag is '-y' or '-n' and is the overwrite       *)
(* decision of this job for that same output path.                           *)
C10_ArgvEndsWithPathAndItsDecision ==
    \A a \in ArgvAttrs :
        self[a] # NoneCmd =>
            /\ Len(self[a]) >= 2
            /\ self[a][Len(self[a])] \in Flags
            /\ self[a][Len(self[a])] = DecisionFor(self[a][Len(self[a]) - 1])

-----------------------------------------------------------------------------
(* C11: when the operator confirms 'Avbryt' while the child of a step is     *)
(* alive, the child is sent the terminate signal and the job closes with     *)
(* 'Terminated', not with 'Success' and not with 'Error'; and a job closes   *)
(* with 'Terminated' only if the operator confirmed 'Avbryt' in that job.    *)
C11_CancelledIffConfirmed ==
    /\ job.abort_active => process.signalled
    /\ (pc = "dialog" /\ job.abort_active) => job.status = "Terminated"
    /\ (pc = "dialog" /\ job.status = "Terminated") => job.abort

\* a job whose second child was terminated on the operator's request has closed
C11_Witness ==
    /\ pc = "dialog"
    /\ job.abort_active
    /\ Len(job.launched) = 2
    /\ job.exits = <<0, -SIGTERM>>
    /\ job.status = "Terminated"

(* C12: once the operator has confirmed 'Avbryt', no further step of the job *)
(* is launched, also when the confirmation comes after the child exited with *)
(* code 0 and before run_ffmpeg_command returned.                            *)
C12_NoLaunchAfterCancel ==
    job.abort => Len(job.launched) = job.abort_at

-----------------------------------------------------------------------------
(* run_ffmpeg_command from inside: the child, its two pipes, the two reader  *)
(* threads (enqueue_output) and the polling loop of the GUI thread.  No      *)
(* operator event is pending when the loop calls processEvents.              *)

\* lines the child writes to stderr in one run
MaxLines == 3
\* lines the child writes to stdout in one run ('-progress -')
MaxStdout == 2
\* lines a pipe holds before the child's write blocks
PipeCapacity == 1

smelt_vars == <<self, pc, commands, i, process, fs, cuda, job, jobs, combiner>>

\* A stderr line, by what the two regular expressions find in it:
\* 'Duration: (\d+):(\d+):(\d+).(\d+)' and 'time=(\d+):(\d+):(\d+).(\d+)';
\* Nothing where the expression does not match, else <<hours, minutes, seconds>>
Line(duration, time) == [duration |-> duration, time |-> time]

Lines ==
    { Line(Some(<<0, 10, 0>>), Nothing),     \* Duration: 00:10:00.00
      Line(Some(<<0, 5, 0>>), Nothing),      \* Duration: 00:05:00.00
      Line(Nothing, Some(<<0, 2, 30>>)),     \* time=00:02:30.00
      Line(Nothing, Some(<<0, 5, 0>>)),      \* time=00:05:00.00
      Line(Nothing, Some(<<0, 10, 0>>)),     \* time=00:10:00.00
      Line(Some(<<0, 0, 0>>), Nothing),      \* Duration: 00:00:00.00
      Line(Nothing, Some(<<0, 0, 0>>)),      \* time=00:00:00.00
      Line(Nothing, Nothing) }

\* hours * 3600 + minutes * 60 + seconds with minutes not scaled
to_seconds_minutes_not_scaled(groups) ==
    groups[1] * 3600 + groups[2] + groups[3]

\* hours * 3600 + minutes * 60 + seconds
to_seconds(groups) ==
    groups[1] * 3600 + groups[2] * 60 + groups[3]

\* lines 1185-1192 without `if total_duration is None`
parse_duration_every_line(total_duration, line) ==
    IF line.duration # Nothing
    THEN Some(to_seconds(line.duration[1]))
    ELSE total_duration

\* lines 1185-1192: total_duration after the line
parse_duration(total_duration, line) ==
    IF total_duration = Nothing /\ line.duration # Nothing
    THEN Some(to_seconds(line.duration[1]))
    ELSE total_duration

\* `if time_match and total_duration is not None`: a total of 0 passes
has_progress_total_not_none(total_duration, line) ==
    /\ line.time # Nothing
    /\ total_duration # Nothing

\* `if time_match and total_duration` (lines 1195-1196): is a progress value
\* computed for the line; a total of 0 is false
has_progress(total_duration, line) ==
    /\ line.time # Nothing
    /\ total_duration # Nothing
    /\ total_duration[1] # 0

\* int((current_time / total_duration) * 100); the quotients of the times of
\* Lines are binary fractions, so the floating-point value is the exact one
progress_value(total_duration, line) ==
    (to_seconds(line.time[1]) * 100) \div total_duration[1]

\* a / b: Nothing stands for ZeroDivisionError
divide(a, b) == IF b = 0 THEN Nothing ELSE Some(a \div b)

\* time.time() - start_time, in seconds
Elapsed == {0, 60}

\* `elapsed_time * (100 - progress) / progress if progress > 0 else 0` (line
\* 1203), in whole seconds.  progress is 100 * current_time / total_duration:
\* it is positive exactly when current_time is, and the quotient is
\* elapsed_time * (total_duration - current_time) / current_time.
remaining_time(elapsed_time, current_time, total_duration) ==
    IF current_time > 0
    THEN divide(elapsed_time * (total_duration - current_time), current_time)
    ELSE Some(0)

\* lines 1197-1207 for a line that passed the test of line 1196: the percent
\* and the estimate that are shown, or Nothing when a division raises
progress_update(total_duration, line, elapsed_time) ==
    IF divide(to_seconds(line.time[1]), total_duration[1]) = Nothing
    THEN Nothing
    ELSE LET eta == remaining_time(elapsed_time, to_seconds(line.time[1]),
                                   total_duration[1])
         IN  IF eta = Nothing
             THEN Nothing
             ELSE Some([value |-> progress_value(total_duration, line),
                        eta |-> eta[1]])

InitRunner ==
    /\ self = Smelt__init__
    /\ pc = "idle"
    /\ commands = << >>
    /\ i = 0
    /\ process = NoProcess
    /\ fs = InitialFiles
    /\ cuda = FALSE
    /\ job = NoJob
    /\ jobs = 0
    /\ combiner = NoCombiner
    \* after Popen and the two Thread.start() (lines 1154-1167)
    /\ runner = [NoRunner EXCEPT !.pc = "get", !.child = "running",
                                 !.stderr_thread = "readline",
                                 !.stdout_thread = "readline"]

\* the child writes a line to stderr; the write blocks while the pipe is full
child_writes_stderr ==
    /\ runner.child = "running"
    /\ Len(runner.wrote) < MaxLines
    /\ Len(runner.stderr_pipe) < PipeCapacity
    /\ \E line \in Lines :
         runner' = [runner EXCEPT !.stderr_pipe = Append(@, line),
                                  !.wrote = Append(@, line)]
    /\ UNCHANGED smelt_vars

child_writes_stdout ==
    /\ runner.child = "running"
    /\ runner.stdout_wrote < MaxStdout
    /\ Len(runner.stdout_pipe) < PipeCapacity
    /\ runner' = [runner EXCEPT !.stdout_pipe = Append(@, "progress"),
                                !.stdout_wrote = @ + 1]
    /\ UNCHANGED smelt_vars

\* the child exits: the write ends of its pipes are closed
runner_child_exits ==
    /\ runner.child = "running"
    /\ \E code \in ExitCodes :
         runner' = [runner EXCEPT !.child = "exited", !.returncode = code]
    /\ UNCHANGED smelt_vars

\* enqueue_output with a queue.Queue(maxsize=1): put blocks while the queue is full
stdout_thread_reads_bounded_queue ==
    /\ runner.stdout_thread = "readline"
    /\ runner.stdout_pipe # << >>
    /\ Len(runner.stdout_queue) < 1
    /\ runner' = [runner EXCEPT !.stdout_pipe = Tail(@),
                                !.stdout_queue = Append(@, Head(runner.stdout_pipe))]
    /\ UNCHANGED smelt_vars

\* enqueue_output(self.process.stdout, stdout_queue): readline, queue.put
stdout_thread_reads ==
    /\ runner.stdout_thread = "readline"
    /\ runner.stdout_pipe # << >>
    /\ runner' = [runner EXCEPT !.stdout_pipe = Tail(@),
                                !.stdout_queue = Append(@, Head(runner.stdout_pipe))]
    /\ UNCHANGED smelt_vars

\* readline returns '' at end of stream: pipe.close(), the thread ends
stdout_thread_ends ==
    /\ runner.stdout_thread = "readline"
    /\ runner.stdout_pipe = << >>
    /\ runner.child = "exited"
    /\ runner' = [runner EXCEPT !.stdout_thread = "done"]
    /\ UNCHANGED smelt_vars

\* enqueue_output(self.process.stderr, stderr_queue)
stderr_thread_reads ==
    /\ runner.stderr_thread = "readline"
    /\ runner.stderr_pipe # << >>
    /\ runner' = [runner EXCEPT !.stderr_pipe = Tail(@),
                                !.stderr_queue = Append(@, Head(runner.stderr_pipe))]
    /\ UNCHANGED smelt_vars

stderr_thread_ends ==
    /\ runner.stderr_thread = "readline"
    /\ runner.stderr_pipe = << >>
    /\ runner.child = "exited"
    /\ runner' = [runner EXCEPT !.stderr_thread = "done"]
    /\ UNCHANGED smelt_vars

\* one turn of `while True` that gets a line (lines 1173-1207), or the
\* queue.Empty of a turn that gets none (lines 1174-1176)
loop_get_nowait ==
    /\ runner.pc = "get"
    /\ IF runner.stderr_queue = << >>
       THEN runner' = [runner EXCEPT !.pc = "poll"]
       ELSE LET line == Head(runner.stderr_queue)
                total_duration == parse_duration(runner.total_duration, line)
                consumed == [runner EXCEPT
                               !.stderr_queue = Tail(@),
                               !.stderr_output = Append(@, line),
                               !.total_duration = total_duration]
            IN  IF ~has_progress(total_duration, line)
                THEN runner' = consumed
                ELSE \E elapsed_time \in Elapsed :
                       \E update \in {progress_update(total_duration, line, elapsed_time)} :
                         IF update = Nothing
                         THEN \* the exception leaves run_ffmpeg_command
                              runner' = [consumed EXCEPT !.pc = "raised"]
                         ELSE runner' =
                                [consumed EXCEPT
                                   !.progress =
                                       Append(@, [line |-> Len(runner.stderr_output) + 1,
                                                  value |-> update[1].value,
                                                  eta |-> update[1].eta])]
    /\ UNCHANGED smelt_vars

\* after queue.Empty: `if self.process.poll() is not None: break`, else sleep
\* and continue (lines 1177-1179)
loop_poll ==
    /\ runner.pc = "poll"
    /\ runner' = [runner EXCEPT
                    !.pc = IF runner.child = "exited" THEN "join_stdout" ELSE "get"]
    /\ UNCHANGED smelt_vars

\* stdout_thread.join() (line 1209)
join_stdout_thread ==
    /\ runner.pc = "join_stdout"
    /\ runner.stdout_thread = "done"
    /\ runner' = [runner EXCEPT !.pc = "join_stderr"]
    /\ UNCHANGED smelt_vars

\* stderr_thread.join(), process.wait() and the return (lines 1210-1216)
join_stderr_thread_and_return ==
    /\ runner.pc = "join_stderr"
    /\ runner.stderr_thread = "done"
    /\ runner.child = "exited"
    /\ runner' = [runner EXCEPT !.pc = "returned",
                                !.result = (runner.returncode = 0)]
    /\ UNCHANGED smelt_vars

NextRunner ==
    \/ child_writes_stderr
    \/ child_writes_stdout
    \/ runner_child_exits
    \/ stdout_thread_reads
    \/ stdout_thread_ends
    \/ stderr_thread_reads
    \/ stderr_thread_ends
    \/ loop_get_nowait
    \/ loop_poll
    \/ join_stdout_thread
    \/ join_stderr_thread_and_return

\* The threads and the GUI thread are scheduled by the operating system: each
\* of their steps that stays possible is taken.  Nothing is assumed of the child.
SpecRunner ==
    /\ InitRunner
    /\ [][NextRunner]_vars
    /\ WF_vars(stdout_thread_reads)
    /\ WF_vars(stdout_thread_ends)
    /\ WF_vars(stderr_thread_reads)
    /\ WF_vars(stderr_thread_ends)
    /\ WF_vars(loop_get_nowait)
    /\ WF_vars(loop_poll)
    /\ WF_vars(join_stdout_thread)
    /\ WF_vars(join_stderr_thread_and_return)

\* the lines among the first n consumed ones that carry a duration marker
DurationLines(n) ==
    {k \in 1..n : runner.stderr_output[k].duration # Nothing}

\* the first of them
FirstDurationLine(n) ==
    CHOOSE k \in DurationLines(n) : \A m \in DurationLines(n) : k <= m

(* C14: when run_ffmpeg_command returns False for a non-zero exit, the text  *)
(* it collected holds every line the child wrote to stderr, whatever the     *)
(* interleaving of the reader thread, the polling loop and the child's exit. *)
C14_FailureCarriesAllStderr ==
    (runner.pc = "returned" /\ runner.result = FALSE)
        => /\ runner.stderr_output = runner.wrote
           /\ runner.stderr_queue = << >>

(* C15: run_ffmpeg_command does not deadlock: a full pipe is always read     *)
(* from again, so the child is never blocked for good, and once the child    *)
(* has exited run_ffmpeg_command returns.                                    *)
C15_NoDeadlock ==
    /\ (Len(runner.stderr_pipe) = PipeCapacity) ~> (Len(runner.stderr_pipe) < PipeCapacity)
    /\ (Len(runner.stdout_pipe) = PipeCapacity) ~> (Len(runner.stdout_pipe) < PipeCapacity)
    /\ (runner.child = "exited") ~> (runner.pc = "returned")

\* the child filled both pipes to the last line, exited, and the call returned
C15_Witness ==
    /\ runner.pc = "returned"
    /\ Len(runner.wrote) = MaxLines
    /\ runner.stdout_wrote = MaxStdout
    /\ Len(runner.stdout_queue) = MaxStdout

(* C16: the percent computed for a line with a time marker is the seconds of *)
(* its HH:MM:SS over the seconds of the HH:MM:SS of the duration marker,     *)
(* times 100; 'Duration: 00:10:00.00' then 'time=00:05:00.00' gives 50.      *)
C16_PercentIsElapsedOverTotal ==
    \A k \in 1..Len(runner.progress) :
        LET p == runner.progress[k]
            time == runner.stderr_output[p.line].time[1]
            duration == runner.stderr_output[FirstDurationLine(p.line)].duration[1]
        IN  /\ p.value * (duration[1] * 3600 + duration[2] * 60 + duration[3])
                 = (time[1] * 3600 + time[2] * 60 + time[3]) * 100
            /\ (duration = <<0, 10, 0>> /\ time = <<0, 5, 0>>) => p.value = 50

\* the stream of the example, and a line whose minutes and seconds both count
C16_Witness ==
    /\ Len(runner.stderr_output) = 3
    /\ runner.stderr_output[1] = Line(Some(<<0, 10, 0>>), Nothing)
    /\ runner.stderr_output[2] = Line(Nothing, Some(<<0, 5, 0>>))
    /\ runner.stderr_output[3] = Line(Nothing, Some(<<0, 2, 30>>))
    /\ Len(runner.progress) = 2
    /\ runner.progress[1].value = 50

(* C17: within one step no progress value is emitted before a line with a   *)
(* duration marker was seen, and the total duration is that of the first     *)
(* such line: a later line with a duration marker does not change it.        *)
C17_DurationSetOnceBeforeProgress ==
    /\ \A k \in 1..Len(runner.progress) :
           DurationLines(runner.progress[k].line) # {}
    /\ (runner.total_duration = Nothing) = (DurationLines(Len(runner.stderr_output)) = {})
    /\ runner.total_duration # Nothing =>
           LET first == runner.stderr_output[FirstDurationLine(Len(runner.stderr_output))]
           IN  runner.total_duration[1] =
                   first.duration[1][1] * 3600 + first.duration[1][2] * 60
                   + first.duration[1][3]

\* two different Duration lines were consumed, then a time line
C17_Witness ==
    /\ Len(runner.stderr_output) = 3
    /\ runner.stderr_output[1] = Line(Some(<<0, 10, 0>>), Nothing)
    /\ runner.stderr_output[2] = Line(Some(<<0, 5, 0>>), Nothing)
    /\ runner.stderr_output[3].time # Nothing
    /\ Len(runner.progress) = 1

(* C18: every progress value run_ffmpeg_command emits lies in 0..100,        *)
(* whatever lines the child writes.                                          *)
C18_ProgressWithinRange ==
    \A k \in 1..Len(runner.progress) : runner.progress[k].value \in 0..100

-----------------------------------------------------------------------------
(* Smelt.py: select_audio and recognize_and_combine_audio_files *)

\* Combining a multichannel set goes through run_ffmpeg_command like a step of a
\* job, but from the file dialog's handler: lock_down is not called and execButton
\* stays bound to run_smelt, so the events that processEvents delivers inside the
\* combine's loop (line 1184) include the start of a job.  Both write self.process.

AllSuffixes == {Suffixes[n] : n \in 1..Len(Suffixes)}

\* the files of the set that exist: matching_files (lines 470-474)
matching_files_of(selected_audio_file) ==
    {suffix \in AllSuffixes : exists(join(dirname(selected_audio_file), StemName(suffix)))}

\* ffmpeg_combine_audio_cmd (lines 491-504)
ffmpeg_combine_audio_cmd(combined_audio_file, proceed_combine) ==
    <<ffmpeg_path,
      "-i", Stem("L"),
      "-i", Stem("R"),
      "-i", Stem("C"),
      "-i", Stem("LFE"),
      "-i", Stem("Ls"),
      "-i", Stem("Rs"),
      "-filter_complex",
      "[0][1][2][3][4][5]amerge=inputs=6,pan=6c|c0<c0|c1<c1|c2<c2|c3<c3|c4<c4|c5<c5",
      "-ac", "6",
      "-c:a", "pcm_s16le",
      combined_audio_file,
      proceed_combine>>

IncompleteWarning == "Ikke alle nodvendige lydfiler (.L, .R, .C, .LFE, .Ls, .Rs) ble funnet."

\* recognize_and_combine_audio_files up to the call of run_ffmpeg_command (lines
\* 458-506).  `reply` is the answer to 'Confirm Combination', `overwrite` the
\* answer to exist_check's prompt.  "returned": the function is over.
recognize_and_combine_audio_files(selected_audio_file, reply, overwrite) ==
    LET matching_files == matching_files_of(selected_audio_file)
        combined_audio_file == join(dirname(selected_audio_file), "s_combined.wav")
        proceed_combine == exist_check(combined_audio_file, overwrite)
        c == [NoCombiner EXCEPT !.reply = reply, !.matching_files = matching_files]
    IN  IF ~reply
        THEN [c EXCEPT !.pc = "done", !.result = selected_audio_file]
        ELSE IF Cardinality(matching_files) # Len(Suffixes)
        THEN [c EXCEPT !.pc = "done", !.result = None, !.warning = IncompleteWarning]
        ELSE [c EXCEPT !.pc = "loop",
                       !.command = ffmpeg_combine_audio_cmd(combined_audio_file,
                                                            proceed_combine.flag),
                       !.launched = @ + 1,
                       !.child = "running"]

\* select_audio, lines 436-438: the path that was returned replaces the selection
use_combined(s, combined_audio_file) ==
    IF combined_audio_file # None
    THEN [s EXCEPT !.audio_file_path = combined_audio_file,
                   !.fil_input_field = basename(combined_audio_file)]
    ELSE s

\* The operator picks the file of the left channel in the audio dialog:
\* select_audio (lines 424-435) and recognize_and_combine_audio_files up to the
\* first point where it waits for its child (Popen, lines 1154-1155).
select_audio ==
    /\ pc = "idle"
    /\ self.enabled
    /\ combiner.pc = "none"
    /\ \E reply \in BOOLEAN, overwrite \in BOOLEAN :
         \E file_path \in {Stem("L")} :
         \E s1 \in {[self EXCEPT
                       !.inkluderLydCheckBox = TRUE,
                       !.audio_file_path = file_path,
                       !.fil_input_field = basename(file_path),
                       !.folder_path = IF @ \in {None, ""} THEN dirname(file_path) ELSE @]} :
         \E c \in {recognize_and_combine_audio_files(file_path, reply, overwrite)} :
           /\ overwrite => (reply /\ c.launched = 1 /\ exists(Combined))
           /\ combiner' = c
           /\ IF c.pc = "done"
              THEN /\ self' = use_combined(s1, c.result)
                   /\ UNCHANGED process
              ELSE /\ self' = s1
                   /\ process' = [state |-> "running", returncode |-> None,
                                  cmd |-> "ffmpeg_combine_audio_cmd", signalled |-> FALSE]
    /\ UNCHANGED <<pc, commands, i, fs, cuda, job, jobs, runner>>

\* self.process still refers to the child of the combine
RefersToCombine == process.cmd = "ffmpeg_combine_audio_cmd"

\* the child of the combine exits; with code 0 it has written the combined file
combine_child_exits ==
    /\ combiner.child = "running"
    /\ \E code \in ExitCodes :
         /\ combiner' = [combiner EXCEPT !.child = "exited", !.returncode = code]
         /\ fs' = IF code = 0 THEN fs \cup {writes_to(combiner.command)} ELSE fs
         /\ process' = IF RefersToCombine
                       THEN [process EXCEPT !.state = "exited", !.returncode = code]
                       ELSE process
    /\ UNCHANGED <<self, pc, commands, i, cuda, job, jobs, runner>>

\* the loop of the combine's run_ffmpeg_command finds its queue empty and
\* self.process.poll() not None (line 1177); it runs when no handler is nested
\* in it
combine_loop_breaks ==
    /\ pc = "idle"
    /\ combiner.pc = "loop"
    /\ process.state = "exited"
    /\ combiner' = [combiner EXCEPT !.pc = "join"]
    /\ UNCHANGED <<self, pc, commands, i, process, fs, cuda, job, jobs, runner>>

\* The reader threads of the combine have reached the end of its child's pipes,
\* run_ffmpeg_command reads self.process.returncode (lines 1209-1216),
\* recognize_and_combine_audio_files returns (lines 507-510) and select_audio
\* uses the result (lines 436-438).
combine_returns ==
    /\ pc = "idle"
    /\ combiner.pc = "join"
    /\ combiner.child = "exited"
    /\ \E combined_audio_file \in {IF process.returncode # 0 THEN None ELSE Combined} :
         /\ combiner' = [combiner EXCEPT !.pc = "done", !.result = combined_audio_file]
         /\ self' = use_combined(self, combined_audio_file)
    /\ UNCHANGED <<pc, commands, i, process, fs, cuda, job, jobs, runner>>

\* the GUI thread is in an event loop: Qt's, or processEvents in the combine's loop
events_delivered == combiner.pc \in {"none", "loop", "done"}

combine_TypeMappe == events_delivered /\ TypeMappe
combine_run_smelt == events_delivered /\ run_smelt
\* the child of a step of the job exits
job_child_exits == pc = "proc" /\ child_exits

\* one job remains to be started
InitCombine ==
    /\ self = Smelt__init__
    /\ pc = "idle"
    /\ commands = << >>
    /\ i = 0
    /\ process = NoProcess
    /\ \E missing \in SUBSET {Stem("Rs")}, combined \in SUBSET {Combined} :
         fs = (InitialFiles \cup Stems \cup combined) \ missing
    /\ cuda = FALSE
    /\ job = NoJob
    /\ jobs = MaxJobs - 1
    /\ runner = NoRunner
    /\ combiner = NoCombiner

NextCombine ==
    \/ select_audio
    \/ combine_child_exits
    \/ combine_loop_breaks
    \/ combine_returns
    \/ combine_TypeMappe
    \/ combine_run_smelt
    \/ execute_ffmpeg_commands
    \/ job_child_exits
    \/ abort
    \/ run_ffmpeg_command_returns
    \/ run_smelt_finish
    \/ run_smelt_returns

SpecCombine == InitCombine /\ [][NextCombine]_vars

\* the children that are alive: the combine's and the one of the job's step
AliveChildren ==
    (IF combiner.child = "running" THEN 1 ELSE 0)
    + (IF process.state = "running" /\ ~RefersToCombine THEN 1 ELSE 0)

\* C13: at most one transcoding child is alive and at most one activity (a job,
\* or the combining of a multichannel set) is in progress, whatever the operator
\* does, also while the combine's child runs.
C13_OneChildOneJob ==
    /\ AliveChildren <= 1
    /\ ~(combiner.pc \in {"loop", "join"} /\ Running)

\* the input files of an argv, in order
Inputs(command) ==
    LET at == {n \in 1..(Len(command) - 1) : command[n] = "-i"}
        RECURSIVE collect(_)
        collect(n) == IF n > Len(command) - 1 THEN << >>
                      ELSE IF n \in at THEN <<command[n + 1]>> \o collect(n + 1)
                      ELSE collect(n + 1)
    IN  collect(1)

\* C19: for a complete set that the operator confirms, exactly one combine step
\* is built and launched, its inputs are the six files in the order L, R, C, LFE,
\* Ls, Rs, and the combined path is returned exactly when the child of the
\* combine exited with code 0.
C19_CompleteSetCombinedOnce ==
    (combiner.pc # "none" /\ combiner.matching_files = AllSuffixes /\ combiner.reply) =>
        /\ combiner.launched = 1
        /\ Inputs(combiner.command) = [n \in 1..Len(Suffixes) |-> Stem(Suffixes[n])]
        /\ combiner.pc = "done" =>
               (combiner.result = Combined <=> combiner.returncode = 0)

\* C20: for an incomplete set the combiner reports the failure (the warning, no
\* path returned) and starts no subprocess, whatever the operator answers.
C20_IncompleteSetFails ==
    (combiner.pc # "none" /\ combiner.matching_files # AllSuffixes) =>
        /\ combiner.launched = 0
        /\ combiner.child = "none"
        /\ combiner.result = None
        /\ combiner.warning = IncompleteWarning

-----------------------------------------------------------------------------
(* The checkboxes across clicks, edits and jobs *)

\* C21: whatever the operator clicks, types and runs, audio-only
\* (kunLydCheckBox) and include-ProRes are never both on, and audio-only on
\* implies include-audio on.
C21_AudioOnlyExcludesProres ==
    /\ ~(self.kunLydCheckBox /\ self.inkluderProresCheckBox)
    /\ self.kunLydCheckBox => self.inkluderLydCheckBox

-----------------------------------------------------------------------------
(* Every job comes to an end *)

\* Once 'Kjor' is clicked the GUI thread runs run_smelt to its end, and a child
\* that was started exits: the steps of a job are taken whenever they can be.
\* The operator's clicks and edits are under no obligation.  (A step of
\* child_exits is one that changes process.state.)
SpecLive ==
    /\ Spec
    /\ WF_vars(execute_ffmpeg_commands)
    /\ WF_<<process.state>>(child_exits)
    /\ WF_vars(run_ffmpeg_command_returns)
    /\ WF_vars(run_smelt_finish)
    /\ WF_vars(run_smelt_returns)

\* the window is idle: the controls are unlocked and execButton starts a job
Idle == pc = "idle" /\ self.enabled /\ self.execButton = "Kjor"

\* C22: every job that is started eventually returns to Idle, with the controls
\* unlocked and execButton bound to run_smelt, on every outcome, an error of
\* os.makedirs included.
C22_JobReturnsToIdle == (pc # "idle") ~> Idle

-----------------------------------------------------------------------------
(* The hardware probe between the setup of a job and its command builders *)

\* What `ffmpeg -hwaccels` and `nvidia-smi` answer is a fact of the machine (the
\* driver, the GPU, the ffmpeg on the PATH) and can change between two calls of
\* cuda_available.
probe_changes ==
    /\ cuda' = ~cuda
    /\ UNCHANGED <<self, pc, commands, i, process, fs, job, jobs, runner, combiner>>

NextProbe == NextCommands \/ probe_changes

\* the setup of the job has probed (InitCommands); the builders run later
SpecProbe == InitCommands /\ [][NextProbe]_vars

\* the last image-sequence build was done by ffmpeg_commands.construct_dpx_commands
\* (its ffmpeg_base ends with '-report')
BuiltByFfmpegCommands ==
    /\ self.ffmpeg_base # NoneCmd
    /\ self.ffmpeg_base[Len(self.ffmpeg_base)] = "-report"

\* C23: the probe's answer is frozen when the job is set up: the source the
\* ProRes argv reads (the temp copy or the lossless output) agrees with the
\* encoder and accelerator flags chosen by the setup, also when the probe
\* would answer differently by the time the commands are built.
C23_ProbeFrozenForJob ==
    BuiltByFfmpegCommands =>
        /\ FirstInput(self.ffmpeg_prores_cmd) = self.temp_mov
               <=> self.ffmpeg_encoder = encoder(TRUE)
        /\ FirstInput(self.ffmpeg_prores_cmd) = self.lossless_mov
               <=> self.ffmpeg_encoder = encoder(FALSE)
        /\ self.ffmpeg_hardware_accel
               = hardware_accel(self.ffmpeg_encoder = encoder(TRUE))

-----------------------------------------------------------------------------
(* The encoder selection in the steps of a job *)

\* `sub` occurs in `seq` as a run of consecutive elements
Contains(seq, sub) ==
    \E n \in 0..(Len(seq) - Len(sub)) : SubSeq(seq, n + 1, n + Len(sub)) = sub

\* the steps that transcode video: lossless, direct H.264, H.264 from the
\* lossless output or from the source
VideoTranscodes ==
    {"ffmpeg_lossless_cmd", "ffmpeg_h264_cmd_direct", "ffmpeg_h264_cmd",
     "ffmpeg_dcp_cmd", "ffmpeg_dcp_h264_cmd", "ffmpeg_h264_from_prores_cmd"}

\* C24: the setup selects hevc_nvenc with yuv422p10le and '-hwaccel cuda' when
\* acceleration is available, libx264 with yuv422p10le otherwise, and the
\* selected encoder is in the argv of every launched step that transcodes video.
C24_EncoderInEveryVideoStep ==
    job.setup = "ok" =>
        /\ self.ffmpeg_encoder = encoder(cuda)
        /\ self.ffmpeg_hardware_accel = hardware_accel(cuda)
        /\ \A k \in 1..Len(job.launched) :
               job.launched[k] \in VideoTranscodes
                   => Contains(self[job.launched[k]], self.ffmpeg_encoder)

-----------------------------------------------------------------------------
(* Running a job again over its own outputs *)

\* the job built the argvs of its step list (audio only, or an image sequence
\* or container it recognised), as a job that produced these outputs before did
BuiltItsSteps ==
    /\ job.setup = "ok"
    /\ Running
    /\ job.audio_only \/ job.filetype \in {"dpx", "mxf", "mov"}

\* the output paths of the steps of the job
Targets == {writes_to(self[commands[k]]) : k \in 1..Len(commands)}

\* the job runs with every output of its steps on disk, the operator answered
\* No to every overwrite prompt and did not cancel
ResubmittedDeclined ==
    /\ BuiltItsSteps
    /\ Targets \subseteq job.existed
    /\ ~job.answers.h264 /\ ~job.answers.lossless /\ ~job.answers.prores
    /\ ~job.abort

\* C25: a job run again when all its outputs exist, with No to every overwrite
\* prompt, launches only steps whose argv ends with an existing target and
\* '-n' (ffmpeg then leaves the file alone), keeps every output on disk, and
\* closes with 'Success'.
C25_ResubmissionNoClobber ==
    ResubmittedDeclined =>
        /\ \A k \in 1..Len(job.launched) :
               LET command == self[job.launched[k]]
               IN  /\ command[Len(command)] = "-n"
                   /\ writes_to(command) \in job.existed
        /\ job.existed \subseteq fs
        /\ pc = "dialog" => job.status = "Success"

\* the second run of a container job has launched its steps and closed
C25_Witness ==
    /\ ResubmittedDeclined
    /\ pc = "dialog"
    /\ Len(job.launched) >= 1
    /\ job.status = "Success"

-----------------------------------------------------------------------------
(* The temp copy in front of the ProRes step *)

\* where a step is in the list of launched steps
Positions(step) == {k \in 1..Len(job.launched) : job.launched[k] = step}

\* C26: in an image-sequence job with acceleration the ProRes step reads the
\* temp copy, and the step that makes the temp copy from the lossless output
\* (ffmpeg_convert) runs exactly once, after the lossless step and before the
\* ProRes step; without acceleration the ProRes step reads the lossless
\* output and no temp-copy step runs.
C26_TempCopyBeforeProRes ==
    (SequenceJob /\ Positions("ffmpeg_prores_cmd") # {}) =>
        IF cuda
        THEN /\ FirstInput(self.ffmpeg_prores_cmd) = TempMov
             /\ Cardinality(Positions("ffmpeg_convert")) = 1
             /\ \A c \in Positions("ffmpeg_convert") :
                    /\ \A l \in Positions("ffmpeg_lossless_cmd") : l < c
                    /\ \A p \in Positions("ffmpeg_prores_cmd") : c < p
        ELSE /\ FirstInput(self.ffmpeg_prores_cmd) = self.lossless_mov
             /\ Positions("ffmpeg_convert") = {}

-----------------------------------------------------------------------------
(* Audio in the argvs of a video job *)

\* C27: the direct H.264 argv of an image sequence has '-map 1:a:0' and the
\* AAC options exactly when it has a second '-i' input (the audio file:
\* include-audio is on and the file exists), and it always has '-map 0:v:0'.
C27_AudioMappedIffSecondInput ==
    self.ffmpeg_h264_cmd_direct # NoneCmd =>
        LET command == self.ffmpeg_h264_cmd_direct
            second_input == Len(Inputs(command)) = 2
        IN  /\ Contains(command, <<"-map", "0:v:0">>)
            /\ Contains(command, <<"-map", "1:a:0">>) <=> second_input
            /\ Contains(command, <<"-c:a", "aac", "-b:a", "224k">>) <=> second_input
            /\ second_input <=> (self.inkluderLydCheckBox /\ exists(self.audio_file))

\* the argvs construct_mxf_mov_commands builds
ContainerArgvs ==
    {"ffmpeg_dcp_cmd", "ffmpeg_dcp_prores", "ffmpeg_dcp_h264_cmd",
     "ffmpeg_h264_from_prores_cmd"}

\* the argv names the path among its elements
References(command, path) == \E n \in 1..Len(command) : command[n] = path

\* C28: in a container job the audio file is a second '-i' input of the built
\* argvs exactly when include-audio is on and an audio file is set; with
\* include-audio off no argv of the job names the audio file.
C28_ContainerAudioIffRequested ==
    (ContainerJob /\ "construct_mxf_mov_commands" \in job.built) =>
        \A a \in ContainerArgvs :
            /\ Len(Inputs(self[a])) = 2
                   <=> (self.inkluderLydCheckBox /\ self.audio_file # "")
            /\ ~self.inkluderLydCheckBox => ~References(self[a], self.audio_file)

-----------------------------------------------------------------------------
(* The command attributes across jobs *)

\* the attributes a builder assigns
AttrsOf(builder) ==
    CASE builder = "construct_dpx_commands" ->
             {"ffmpeg_lossless_cmd", "ffmpeg_h264_cmd_direct", "ffmpeg_prores_cmd",
              "ffmpeg_h264_cmd"}
      [] builder = "construct_mxf_mov_commands" -> ContainerArgvs
      [] builder = "construct_audio_commands" ->
             {"ffmpeg_audio_cmd", "ffmpeg_lossless_audio_cmd"}
      [] OTHER -> {}

\* the attributes assigned in the current job
ConstructedNow == UNION {AttrsOf(builder) : builder \in job.built}

\* C29: every argv execute_ffmpeg_commands launches was constructed in the
\* current job: never one left in its attribute by an earlier job.  (An
\* attribute that is still None is not launched: ' '.join(None) raises.)
C29_LaunchedWasBuiltInThisJob ==
    \A k \in 1..Len(job.launched) : job.launched[k] \in ConstructedNow

-----------------------------------------------------------------------------
(* Division by zero in the progress computation *)

\* the seconds of the time marker of the line a progress entry was computed for
CurrentTime(p) == to_seconds(runner.stderr_output[p.line].time[1])

\* C30: the progress and estimate computation never divides by zero: no
\* exception leaves the loop, a total duration of 0 seconds gives no progress
\* update at all, and a progress of 0 percent gives an estimate of 0.
C30_NoDivisionByZero ==
    /\ runner.pc # "raised"
    /\ runner.total_duration = Some(0) => runner.progress = << >>
    /\ \A k \in 1..Len(runner.progress) :
           CurrentTime(runner.progress[k]) = 0 => runner.progress[k].eta = 0

\* a total of 0 seconds was parsed and a line with a time marker consumed after it
C30_Witness ==
    /\ runner.total_duration = Some(0)
    /\ \E n \in 1..Len(runner.stderr_output) :
           /\ runner.stderr_output[n].time # Nothing
           /\ DurationLines(n) # {}
    /\ runner.pc = "get"

=============================================================================
